---------------------------- MODULE Spec2Model ----------------------------
(***************************************************************************)
(* A model of src/src/comm/chacha20.h: the ChaCha20 block function and the *)
(* counter-mode XOR loop ChaCha20XOR.                                      *)
(*                                                                         *)
(* A uint32_t value v is held as the pair <<v >> 16, v & 0xffff>> of its   *)
(* 16-bit halves, because the model checker's integers are 32-bit signed.  *)
(* A uint8_t is an integer in 0..255.  Arrays are functions from 0.        *)
(***************************************************************************)
EXTENDS Integers, Sequences, FiniteSets, TLC

VARIABLES
    key, nonce, counter, inp, out, inlen, aliased,  \* the arguments of the running call
    s, block, i, j,                                 \* the locals of ChaCha20XOR
    x, rounds, q, num_rounds,                       \* the locals of chacha20_block
    pc,                                             \* the position in the code
    call, plain, res1, resA, splitK,                \* the caller: which call runs, what it keeps
    nblocks, qrCount, drCount, drLog,               \* history: blocks, quarter rounds, double rounds
    rcount, wcount, blkReads, oob,                  \* history: buffer accesses
    rot                                             \* the arguments and result of one rotl32 call

vars == <<key, nonce, counter, inp, out, inlen, aliased, s, block, i, j,
          x, rounds, q, num_rounds, pc, call, plain, res1, resA, splitK,
          nblocks, qrCount, drCount, drLog, rcount, wcount, blkReads, oob, rot>>

----------------------------------------------------------------------------
(* Bounds of the model. *)

\* The longest input holds MaxBlocks full 64-byte chunks and one more byte.
MaxBlocks == 2

\* chacha20_block alone is run with every round count in 0..MaxRounds.
MaxRounds == 21

----------------------------------------------------------------------------
(* Unsigned 32-bit arithmetic on pairs of 16-bit halves. *)

Pow2(n) == 2 ^ n

\* F applied to the value of e, e evaluated once
Bind(e, F(_)) == CHOOSE r \in {F(v) : v \in {e}} : TRUE

Half == Pow2(16)

W(hi, lo) == <<hi, lo>>

Hi(w) == w[1]

Lo(w) == w[2]

IsWord32(w) == /\ Hi(w) \in 0 .. Half - 1
               /\ Lo(w) \in 0 .. Half - 1

\* a ^ b, a | b, a & b on the low n bits of two non-negative integers
RECURSIVE XorN(_, _, _)
XorN(a, b, n) ==
    IF n = 0 \/ (a = 0 /\ b = 0) THEN 0
    ELSE ((a + b) % 2) + 2 * XorN(a \div 2, b \div 2, n - 1)

RECURSIVE OrN(_, _, _)
OrN(a, b, n) ==
    IF n = 0 \/ (a = 0 /\ b = 0) THEN 0
    ELSE (IF a % 2 = 1 \/ b % 2 = 1 THEN 1 ELSE 0) + 2 * OrN(a \div 2, b \div 2, n - 1)

RECURSIVE AndN(_, _, _)
AndN(a, b, n) ==
    IF n = 0 \/ a = 0 \/ b = 0 THEN 0
    ELSE (IF a % 2 = 1 /\ b % 2 = 1 THEN 1 ELSE 0) + 2 * AndN(a \div 2, b \div 2, n - 1)

\* the three operations on 4-bit values, tabulated once
XorTab == [a \in 0 .. 15 |-> [b \in 0 .. 15 |-> XorN(a, b, 4)]]

OrTab == [a \in 0 .. 15 |-> [b \in 0 .. 15 |-> OrN(a, b, 4)]]

AndTab == [a \in 0 .. 15 |-> [b \in 0 .. 15 |-> AndN(a, b, 4)]]

\* a table applied to each of the four 4-bit digits of two 16-bit values
Digits16(T, a, b) ==
    T[a % 16][b % 16]
      + 16 * T[(a \div 16) % 16][(b \div 16) % 16]
      + 256 * T[(a \div 256) % 16][(b \div 256) % 16]
      + 4096 * T[(a \div 4096) % 16][(b \div 4096) % 16]

\* a bug: the bytes are added instead of XORed
Xor8AsAdd(a, b) == (a + b) % 256

\* ^ on uint8_t
Xor8(a, b) == XorTab[a % 16][b % 16] + 16 * XorTab[(a \div 16) % 16][(b \div 16) % 16]

Xor32(a, b) == W(Digits16(XorTab, Hi(a), Hi(b)), Digits16(XorTab, Lo(a), Lo(b)))

Or32(a, b) == W(Digits16(OrTab, Hi(a), Hi(b)), Digits16(OrTab, Lo(a), Lo(b)))

And32(a, b) == W(Digits16(AndTab, Hi(a), Hi(b)), Digits16(AndTab, Lo(a), Lo(b)))

\* a + b on uint32_t: the carry out of bit 31 is dropped
Add32(a, b) ==
    LET lo == Lo(a) + Lo(b)
        hi == Hi(a) + Hi(b) + (lo \div Half)
    IN  W(hi % Half, lo % Half)

\* x << n on uint32_t, n in 0..31: the bits shifted out are dropped
Shl32(w, n) ==
    IF n < 16
    THEN W((Hi(w) * Pow2(n) + (Lo(w) \div Pow2(16 - n))) % Half, (Lo(w) * Pow2(n)) % Half)
    ELSE W((Lo(w) * Pow2(n - 16)) % Half, 0)

\* x >> n on uint32_t, n in 0..31
Shr32(w, n) ==
    IF n < 16
    THEN W(Hi(w) \div Pow2(n), ((Hi(w) % Pow2(n)) * Pow2(16 - n) + (Lo(w) \div Pow2(n))) % Half)
    ELSE W(0, Hi(w) \div Pow2(n - 16))

AllOnes32 == W(Half - 1, Half - 1)

\* -w in two's complement: ~w + 1
Neg32(w) == Add32(Xor32(w, AllOnes32), W(0, 1))

\* -n & 31 on a 32-bit int, n >= 0
NegAnd31(n) == Lo(And32(Neg32(W(0, n)), W(0, 31)))

\* a bug: the right shift is by n instead of by -n & 31
rotl32SameShift(w, n) == Or32(Shl32(w, n), Shr32(w, n))

\* rotl32, line 63: x << n | (x >> (-n & 31))
rotl32(w, n) ==
    Bind(w, LAMBDA v :
    Bind(NegAnd31(n), LAMBDA m : Or32(Shl32(v, n), Shr32(v, m))))

\* bit k (0 = least significant) of a uint32_t
Bit(w, k) == IF k < 16 THEN (Lo(w) \div Pow2(k)) % 2 ELSE (Hi(w) \div Pow2(k - 16)) % 2

----------------------------------------------------------------------------
(* The endian codec, lines 19-47. *)

\* a uint8_t promoted to a 32-bit value
FromByte(b) == W(0, b)

\* the low eight bits of a 32-bit value, as a uint8_t
ToByte(w) == Lo(w)

Mask8 == W(0, 255)

\* u32t8le: p[0] = v & 0xff; p[k] = (v >> 8k) & 0xff
u32t8le(v) ==
    [k \in 0 .. 3 |-> ToByte(And32(Shr32(v, 8 * k), Mask8))]

\* u8t32le: value = p[3]; then three times value = (value << 8) | p[k]
u8t32le(p) ==
    Bind(FromByte(p[3]), LAMBDA v3 :
    Bind(Or32(Shl32(v3, 8), FromByte(p[2])), LAMBDA v2 :
    Bind(Or32(Shl32(v2, 8), FromByte(p[1])), LAMBDA v1 :
    Or32(Shl32(v1, 8), FromByte(p[0])))))

\* the four bytes p + off of a byte array
Slice4(p, off) == [k \in 0 .. 3 |-> p[off + k]]

----------------------------------------------------------------------------
(* The quarter round, lines 82-88. *)

\* x[a] += x[b]; x[d] = rotl32(x[d] ^ x[a], r1); x[c] += x[d]; x[b] = rotl32(x[b] ^ x[c], r2)
\* on the values <<x[a], x[b], x[c], x[d]>>: one line of lines 84-87 and the next
HalfQuarter(va, vb, vc, vd, r1, r2) ==
    Bind(Add32(va, vb), LAMBDA a1 :
    Bind(rotl32(Xor32(vd, a1), r1), LAMBDA d1 :
    Bind(Add32(vc, d1), LAMBDA c1 :
    Bind(rotl32(Xor32(vb, c1), r2), LAMBDA b1 :
    <<a1, b1, c1, d1>>))))

\* a bug: the last two rotation amounts are exchanged
chacha20_quarterround_swapped(y, a, b, c, d) ==
    Bind(HalfQuarter(y[a], y[b], y[c], y[d], 16, 12), LAMBDA h :
    Bind(HalfQuarter(h[1], h[2], h[3], h[4], 7, 8), LAMBDA g :
    [y EXCEPT ![a] = g[1], ![b] = g[2], ![c] = g[3], ![d] = g[4]]))

chacha20_quarterround(y, a, b, c, d) ==
    Bind(HalfQuarter(y[a], y[b], y[c], y[d], 16, 12), LAMBDA h :
    Bind(HalfQuarter(h[1], h[2], h[3], h[4], 8, 7), LAMBDA g :
    [y EXCEPT ![a] = g[1], ![b] = g[2], ![c] = g[3], ![d] = g[4]]))

\* a bug: the diagonals come before the columns
GroupsDiagonalFirst ==
    << <<0, 5, 10, 15>>, <<1, 6, 11, 12>>, <<2, 7, 8, 13>>, <<3, 4, 9, 14>>,
       <<0, 4, 8, 12>>, <<1, 5, 9, 13>>, <<2, 6, 10, 14>>, <<3, 7, 11, 15>> >>

\* the index groups of the eight calls in the body of the round loop, lines 131-138
Groups ==
    << <<0, 4, 8, 12>>, <<1, 5, 9, 13>>, <<2, 6, 10, 14>>, <<3, 7, 11, 15>>,
       <<0, 5, 10, 15>>, <<1, 6, 11, 12>>, <<2, 7, 8, 13>>, <<3, 4, 9, 14>> >>

\* chacha20_serialize, lines 101-107: word k goes to bytes 4k .. 4k+3
chacha20_serialize(y) ==
    [k \in 0 .. 63 |-> u32t8le(y[k \div 4])[k % 4]]

\* the feedforward loop, lines 141-143: x[k] += in[k]
AddState(y, in0) == [k \in 0 .. 15 |-> Add32(y[k], in0[k])]

----------------------------------------------------------------------------
(* chacha20_init_state, lines 164-183. *)

Sigma0 == W(24944, 30821)   \* 0x61707865

Sigma1 == W(13088, 25710)   \* 0x3320646e

Sigma2 == W(31074, 11570)   \* 0x79622d32

Sigma3 == W(27424, 25972)   \* 0x6b206574

chacha20_init_state(k, c, n) ==
    [w \in 0 .. 15 |->
        IF w = 0 THEN Sigma0
        ELSE IF w = 1 THEN Sigma1
        ELSE IF w = 2 THEN Sigma2
        ELSE IF w = 3 THEN Sigma3
        ELSE IF w < 12 THEN u8t32le(Slice4(k, (w - 4) * 4))
        ELSE IF w = 12 THEN c
        ELSE u8t32le(Slice4(n, (w - 13) * 4))]

One32 == W(0, 1)

Zero32 == W(0, 0)

----------------------------------------------------------------------------
(* The inputs the model runs the code on. *)

\* the round count ChaCha20XOR passes to chacha20_block, line 213
Rounds20 == 20

\* the size of a keystream block and of a chunk, lines 208, 212, 216
BlockLen == 64

ZeroKey == [k \in 0 .. 31 |-> 0]

\* 00 01 02 .. 1f
SeqKey == [k \in 0 .. 31 |-> k]

Keys == {ZeroKey, SeqKey}

ZeroNonce == [k \in 0 .. 11 |-> 0]

\* 00 00 00 09 00 00 00 4a 00 00 00 00
MixNonce == [k \in 0 .. 11 |-> IF k = 3 THEN 9 ELSE IF k = 7 THEN 74 ELSE 0]

Nonces == {ZeroNonce, MixNonce}

MaxCounter == AllOnes32   \* 0xffffffff

Counters == {Zero32, One32, MaxCounter}

Lens == {0, 1, BlockLen - 1, BlockLen, BlockLen + 1, BlockLen * MaxBlocks + 1}

ZeroBytes(L) == [k \in 0 .. L - 1 |-> 0]

MixBytes(L) == [k \in 0 .. L - 1 |-> (k * 37 + 11) % 256]

Plains(L) == {ZeroBytes(L), MixBytes(L)}

\* a byte of an output buffer that nothing has written yet
NoByte == 0 - 1

Fresh(L) == [k \in 0 .. L - 1 |-> NoByte]

\* the contents of s, x and block before their first assignment (never read)
Indet16 == [k \in 0 .. 15 |-> Zero32]

IndetBlock == [k \in 0 .. BlockLen - 1 |-> 0]

NoCounts(L) == [k \in 0 .. L - 1 |-> 0]

\* the length of an array held as a function on 0 .. L-1
Len0(f) == Cardinality(DOMAIN f)

IdleRot == [x |-> Zero32, n |-> 0, r |-> Zero32, pc |-> "idle"]

----------------------------------------------------------------------------
(* The state before a call of ChaCha20XOR(k, c, n, in, out, len) runs; with *)
(* al, out is the same buffer as in.                                        *)

Enter(who, k, c, n, in0, al) ==
    /\ call' = who
    /\ key' = k
    /\ counter' = c
    /\ nonce' = n
    /\ inp' = in0
    /\ inlen' = Len0(in0)
    /\ aliased' = al
    /\ out' = IF al THEN in0 ELSE Fresh(Len0(in0))
    /\ s' = Indet16
    /\ block' = IndetBlock
    /\ x' = Indet16
    /\ i' = 0
    /\ j' = 0
    /\ rounds' = 0
    /\ q' = 0
    /\ num_rounds' = 0
    /\ pc' = "init"
    /\ nblocks' = 0
    /\ qrCount' = 0
    /\ drCount' = 0
    /\ drLog' = <<>>
    /\ rcount' = NoCounts(Len0(in0))
    /\ wcount' = NoCounts(Len0(in0))
    /\ blkReads' = {}
    /\ oob' = FALSE

Init ==
    /\ call = "main"
    /\ key \in Keys
    /\ counter \in Counters
    /\ nonce \in Nonces
    /\ inlen \in Lens
    /\ inp \in Plains(inlen)
    /\ aliased = FALSE
    /\ out = Fresh(inlen)
    /\ s = Indet16
    /\ block = IndetBlock
    /\ x = Indet16
    /\ i = 0
    /\ j = 0
    /\ rounds = 0
    /\ q = 0
    /\ num_rounds = 0
    /\ pc = "init"
    /\ plain = inp
    /\ res1 = <<>>
    /\ resA = <<>>
    /\ splitK = 0
    /\ nblocks = 0
    /\ qrCount = 0
    /\ drCount = 0
    /\ drLog = <<>>
    /\ rcount = NoCounts(inlen)
    /\ wcount = NoCounts(inlen)
    /\ blkReads = {}
    /\ oob = FALSE
    /\ rot = IdleRot

callerVars == <<call, plain, res1, resA, splitK>>

argVars == <<key, nonce, counter, inp, inlen, aliased>>

blockVars == <<x, rounds, q, num_rounds, qrCount, drCount, drLog>>

accessVars == <<rcount, wcount, blkReads, oob>>

----------------------------------------------------------------------------
(* ChaCha20XOR, lines 203-223, and chacha20_block, lines 123-146. *)

\* line 210: chacha20_init_state(s, key, counter, nonce); line 212: i = 0
InitState ==
    /\ pc = "init"
    /\ s' = chacha20_init_state(key, counter, nonce)
    /\ i' = 0
    /\ pc' = "loop"
    /\ UNCHANGED <<callerVars, argVars, blockVars, accessVars, out, block, j, nblocks, rot>>

\* a bug: the loop test is i <= inlen
LoopTestInclusive ==
    /\ pc = "loop"
    /\ IF i <= inlen
       THEN /\ pc' = "blk_copy"
            /\ num_rounds' = Rounds20
       ELSE /\ pc' = "done"
            /\ UNCHANGED num_rounds
    /\ UNCHANGED <<callerVars, argVars, accessVars, x, rounds, q, qrCount, drCount, drLog,
                   s, out, block, i, j, nblocks, rot>>

\* line 212: i < inlen; line 213: the call chacha20_block(s, block, 20)
LoopTest ==
    /\ pc = "loop"
    /\ IF i < inlen
       THEN /\ pc' = "blk_copy"
            /\ num_rounds' = Rounds20
       ELSE /\ pc' = "done"
            /\ UNCHANGED num_rounds
    /\ UNCHANGED <<callerVars, argVars, accessVars, x, rounds, q, qrCount, drCount, drLog,
                   s, out, block, i, j, nblocks, rot>>

\* line 128: memcpy(x, in, ..); line 130: i = num_rounds
BlockCopy ==
    /\ pc = "blk_copy"
    /\ x' = s
    /\ rounds' = num_rounds
    /\ q' = 0
    /\ qrCount' = 0
    /\ drCount' = 0
    /\ drLog' = <<>>
    /\ pc' = "blk_round"
    /\ UNCHANGED <<callerVars, argVars, accessVars, num_rounds, s, out, block, i, j, nblocks, rot>>

\* lines 130-139: with i > 0, the next of the eight quarter rounds of the loop
\* body; after the eighth, i -= 2
QuarterRoundStep ==
    /\ pc = "blk_round"
    /\ rounds > 0
    /\ LET g == Groups[q + 1]
       IN  /\ x' = chacha20_quarterround(x, g[1], g[2], g[3], g[4])
           /\ drLog' = IF q = 0 THEN <<g>> ELSE Append(drLog, g)
    /\ q' = (q + 1) % 8
    /\ rounds' = IF q = 7 THEN rounds - 2 ELSE rounds
    /\ drCount' = IF q = 7 THEN drCount + 1 ELSE drCount
    /\ qrCount' = qrCount + 1
    /\ UNCHANGED <<callerVars, argVars, accessVars, num_rounds, pc, s, out, block, i, j, nblocks, rot>>

\* a bug: the sum is stored into the input state, in[i] += x[i]
FeedforwardIntoInput ==
    /\ pc = "blk_round"
    /\ ~(rounds > 0)
    /\ s' = AddState(x, s)
    /\ x' = AddState(x, s)
    /\ pc' = "blk_ser"
    /\ UNCHANGED <<callerVars, argVars, accessVars, rounds, q, num_rounds, qrCount, drCount, drLog,
                   out, block, i, j, nblocks, rot>>

\* line 130: i > 0 fails; lines 141-143: x[i] += in[i]
Feedforward ==
    /\ pc = "blk_round"
    /\ ~(rounds > 0)
    /\ x' = AddState(x, s)
    /\ pc' = "blk_ser"
    /\ UNCHANGED <<callerVars, argVars, accessVars, rounds, q, num_rounds, qrCount, drCount, drLog,
                   s, out, block, i, j, nblocks, rot>>

\* line 145: chacha20_serialize(x, out); chacha20_block returns
Serialize ==
    /\ pc = "blk_ser"
    /\ block' = chacha20_serialize(x)
    /\ nblocks' = nblocks + 1
    /\ pc' = "blk_ret"
    /\ UNCHANGED <<callerVars, argVars, blockVars, accessVars, s, out, i, j, rot>>

\* a bug: the counter is not incremented
IncCounterMissing ==
    /\ pc = "blk_ret"
    /\ call # "block"
    /\ j' = i
    /\ blkReads' = {}
    /\ pc' = "xor"
    /\ UNCHANGED <<callerVars, argVars, blockVars, rcount, wcount, oob, s, out, block, i, nblocks, rot>>

\* a bug: the counter stays at 0xffffffff instead of wrapping
IncCounterSaturating ==
    /\ pc = "blk_ret"
    /\ call # "block"
    /\ s' = [s EXCEPT ![12] = IF s[12] = AllOnes32 THEN s[12] ELSE Add32(s[12], One32)]
    /\ j' = i
    /\ blkReads' = {}
    /\ pc' = "xor"
    /\ UNCHANGED <<callerVars, argVars, blockVars, rcount, wcount, oob, out, block, i, nblocks, rot>>

\* line 214: s[12]++; line 216: j = i
IncCounter ==
    /\ pc = "blk_ret"
    /\ call # "block"
    /\ s' = [s EXCEPT ![12] = Add32(s[12], One32)]
    /\ j' = i
    /\ blkReads' = {}
    /\ pc' = "xor"
    /\ UNCHANGED <<callerVars, argVars, blockVars, rcount, wcount, oob, out, block, i, nblocks, rot>>

\* a bug: the break is taken one index late
BreakCondLate == j > inlen

\* line 217: if (j >= inlen) break
BreakCond == j >= inlen

\* the buffer the read in[j] goes to
Source == IF aliased THEN out ELSE inp

\* a bug: out[j] = block[j - i]; out[j] ^= in[j], which reads in[j] after the write
XorByteTwoStep ==
    /\ pc = "xor"
    /\ j < i + BlockLen
    /\ ~BreakCond
    /\ LET inside == j \in 0 .. inlen - 1 /\ (j - i) \in 0 .. BlockLen - 1
           stored == [out EXCEPT ![j] = block[j - i]]
           reread == IF aliased THEN stored[j] ELSE inp[j]
       IN  /\ out' = IF inside THEN [out EXCEPT ![j] = Xor8(stored[j], reread)] ELSE out
           /\ rcount' = IF inside THEN [rcount EXCEPT ![j] = @ + 1] ELSE rcount
           /\ wcount' = IF inside THEN [wcount EXCEPT ![j] = @ + 1] ELSE wcount
           /\ oob' = (oob \/ ~inside)
    /\ blkReads' = blkReads \cup {j - i}
    /\ j' = j + 1
    /\ UNCHANGED <<callerVars, argVars, blockVars, pc, s, block, i, nblocks, rot>>

\* lines 216-221: j < i + 64, no break; out[j] = in[j] ^ block[j - i]; j++
XorByte ==
    /\ pc = "xor"
    /\ j < i + BlockLen
    /\ ~BreakCond
    /\ LET inside == j \in 0 .. inlen - 1 /\ (j - i) \in 0 .. BlockLen - 1
       IN  /\ out' = IF inside THEN [out EXCEPT ![j] = Xor8(Source[j], block[j - i])] ELSE out
           /\ rcount' = IF inside THEN [rcount EXCEPT ![j] = @ + 1] ELSE rcount
           /\ wcount' = IF inside THEN [wcount EXCEPT ![j] = @ + 1] ELSE wcount
           /\ oob' = (oob \/ ~inside)
    /\ blkReads' = blkReads \cup {j - i}
    /\ j' = j + 1
    /\ UNCHANGED <<callerVars, argVars, blockVars, pc, s, block, i, nblocks, rot>>

\* lines 216-218: j < i + 64 fails, or the break; line 212: i += 64
ChunkEnd ==
    /\ pc = "xor"
    /\ (~(j < i + BlockLen) \/ BreakCond)
    /\ i' = i + BlockLen
    /\ pc' = "loop"
    /\ UNCHANGED <<callerVars, argVars, blockVars, accessVars, s, out, block, j, nblocks, rot>>

----------------------------------------------------------------------------
(* The callers: once the call on the plain input has returned, the same     *)
(* input or its output goes through ChaCha20XOR again.                      *)

\* bytes from .. from + n - 1 of a buffer
Sub(f, from, n) == [k \in 0 .. n - 1 |-> f[from + k]]

\* the buffer a followed by the buffer b
Cat(a, b) == [k \in 0 .. Len0(a) + Len0(b) - 1 |-> IF k < Len0(a) THEN a[k] ELSE b[k - Len0(a)]]

\* the lengths |A| of a prefix A of the input that is a whole number of chunks
Splits(L) == {k \in 0 .. L : k % BlockLen = 0}

\* the output of the first call is given to a second call with the same arguments
StartRoundTrip ==
    /\ pc = "done"
    /\ call = "main"
    /\ res1' = out
    /\ Enter("roundtrip", key, counter, nonce, out, FALSE)
    /\ UNCHANGED <<plain, resA, splitK, rot>>

\* the same call with out == in
StartInPlace ==
    /\ pc = "done"
    /\ call = "main"
    /\ res1' = out
    /\ Enter("inplace", key, counter, nonce, plain, TRUE)
    /\ UNCHANGED <<plain, resA, splitK, rot>>

\* the same call on the first k bytes of the input, k a multiple of 64
StartPrefix ==
    /\ pc = "done"
    /\ call = "main"
    /\ \E k \in Splits(Len0(plain)) :
          /\ splitK' = k
          /\ Enter("prefix", key, counter, nonce, Sub(plain, 0, k), FALSE)
    /\ res1' = out
    /\ UNCHANGED <<plain, resA, rot>>

\* then a call on the rest of the input, with the counter k / 64 further (a uint32_t)
StartSuffix ==
    /\ pc = "done"
    /\ call = "prefix"
    /\ resA' = out
    /\ Enter("suffix", key, Add32(counter, W(0, splitK \div BlockLen)), nonce,
             Sub(plain, splitK, Len0(plain) - splitK), FALSE)
    /\ UNCHANGED <<plain, res1, splitK, rot>>

Next ==
    \/ InitState
    \/ LoopTest
    \/ BlockCopy
    \/ QuarterRoundStep
    \/ Feedforward
    \/ Serialize
    \/ IncCounter
    \/ XorByte
    \/ ChunkEnd
    \/ StartRoundTrip
    \/ StartInPlace
    \/ StartPrefix
    \/ StartSuffix

Spec == Init /\ [][Next]_vars

\* the calls under one key and one nonce, which no branch of the code looks at
FairInit ==
    /\ Init
    /\ key = SeqKey
    /\ nonce = MixNonce

\* the code is sequential and waits for nothing: a step it can take, it takes
FairSpec == FairInit /\ [][Next]_vars /\ WF_vars(Next)

----------------------------------------------------------------------------
(* chacha20_block on its own: a state and a round count, lines 123-146. *)

RoundCounts == 0 .. MaxRounds

BlockStates ==
    {chacha20_init_state(k, c, n) : k \in Keys, c \in Counters, n \in Nonces}
        \cup {[w \in 0 .. 15 |-> AllOnes32]}

InitBlock ==
    /\ call = "block"
    /\ key = ZeroKey
    /\ counter = Zero32
    /\ nonce = ZeroNonce
    /\ inlen = 0
    /\ inp = <<>>
    /\ aliased = FALSE
    /\ out = <<>>
    /\ s \in BlockStates
    /\ block = IndetBlock
    /\ x = Indet16
    /\ i = 0
    /\ j = 0
    /\ rounds = 0
    /\ q = 0
    /\ num_rounds \in RoundCounts
    /\ pc = "blk_copy"
    /\ plain = <<>>
    /\ res1 = <<>>
    /\ resA = <<>>
    /\ splitK = 0
    /\ nblocks = 0
    /\ qrCount = 0
    /\ drCount = 0
    /\ drLog = <<>>
    /\ rcount = <<>>
    /\ wcount = <<>>
    /\ blkReads = {}
    /\ oob = FALSE
    /\ rot = IdleRot

NextBlock ==
    \/ BlockCopy
    \/ QuarterRoundStep
    \/ Feedforward
    \/ Serialize

SpecBlock == InitBlock /\ [][NextBlock]_vars

----------------------------------------------------------------------------
(* rotl32 on its own, lines 61-64. *)

\* the words with one bit set
OneBit == {Shl32(W(0, 1), k) : k \in 0 .. 31}

RotWords == OneBit \cup {Xor32(w, AllOnes32) : w \in OneBit}
                   \cup {Zero32, AllOnes32, Sigma0, Sigma1, Sigma2, Sigma3}

Shifts == 0 .. 31

InitRot ==
    /\ call = "rot"
    /\ key = ZeroKey
    /\ counter = Zero32
    /\ nonce = ZeroNonce
    /\ inlen = 0
    /\ inp = <<>>
    /\ aliased = FALSE
    /\ out = <<>>
    /\ s = Indet16
    /\ block = IndetBlock
    /\ x = Indet16
    /\ i = 0
    /\ j = 0
    /\ rounds = 0
    /\ q = 0
    /\ num_rounds = 0
    /\ pc = "rot"
    /\ plain = <<>>
    /\ res1 = <<>>
    /\ resA = <<>>
    /\ splitK = 0
    /\ nblocks = 0
    /\ qrCount = 0
    /\ drCount = 0
    /\ drLog = <<>>
    /\ rcount = <<>>
    /\ wcount = <<>>
    /\ blkReads = {}
    /\ oob = FALSE
    /\ \E w \in RotWords, n \in Shifts :
          rot = [x |-> w, n |-> n, r |-> Zero32, pc |-> "call"]

\* the call rotl32(x, n) returns
RotCall ==
    /\ rot.pc = "call"
    /\ rot' = [rot EXCEPT !.r = rotl32(rot.x, rot.n), !.pc = "ret"]
    /\ UNCHANGED <<callerVars, argVars, blockVars, accessVars, pc, s, out, block, i, j, nblocks>>

NextRot == RotCall

SpecRot == InitRot /\ [][NextRot]_vars

----------------------------------------------------------------------------
(* The properties. *)

\* ceil(L / 64)
Chunks(L) == (L + BlockLen - 1) \div BlockLen

\* the call has returned
Returned == pc = "done"

\* the keystream block of the running chunk is in block
BlockReady == pc \in {"blk_ret", "xor"}

\* chacha20_block is running
InBlock == pc \in {"blk_copy", "blk_round", "blk_ser"}

\* C1. Round trip: the output of a call, given to a second call with the same
\* key, counter and nonce, comes back as the original input, for every length.
C1_RoundTrip ==
    (call = "roundtrip" /\ Returned) =>
        /\ inp = res1
        /\ out = plain

C1_Witness ==
    /\ call = "roundtrip"
    /\ Returned
    /\ inlen = BlockLen + 1
    /\ res1 # plain
    /\ out = plain

\* C2. Boundary handling: the input is read and the output written only at
\* 0 .. L-1, the keystream block read only at 0 .. 63, no index written twice;
\* on return every index was written exactly once, nothing for L = 0, and the
\* last chunk used only the first L mod 64 bytes of its block (64 when L is a
\* positive multiple of 64).
C2_Boundary ==
    (call \in {"main", "roundtrip", "inplace", "prefix", "suffix"}) =>
        /\ ~oob
        /\ DOMAIN out = 0 .. inlen - 1
        /\ blkReads \subseteq 0 .. BlockLen - 1
        /\ \A k \in 0 .. inlen - 1 : wcount[k] <= 1 /\ rcount[k] <= 1
        /\ Returned =>
              /\ \A k \in 0 .. inlen - 1 : wcount[k] = 1 /\ rcount[k] = 1 /\ out[k] \in 0 .. 255
              /\ (inlen = 0) => (out = <<>> /\ nblocks = 0 /\ blkReads = {})
              /\ (inlen % BlockLen # 0) => blkReads = 0 .. (inlen % BlockLen) - 1
              /\ (inlen > 0 /\ inlen % BlockLen = 0) => blkReads = 0 .. BlockLen - 1

C2_Witness ==
    /\ call = "main"
    /\ Returned
    /\ inlen = BlockLen + 1
    /\ blkReads = {0}
    /\ wcount[BlockLen] = 1

\* the published keystream block for the all-zero key and nonce, counter 0
TestVector ==
    << 118, 184, 224, 173, 160, 241,  61, 144,  64,  93, 106, 229,  83, 134, 189,  40,
       189, 210,  25, 184, 160, 141, 237,  26, 168,  54, 239, 204, 139, 119,  13, 199,
       218,  65,  89, 124,  81,  87,  72, 141, 119,  36, 224,  63, 184, 216,  74,  55,
       106,  67, 184, 244,  21,  24, 161,  28, 195, 135, 182, 105, 178, 238, 101, 134 >>

TestVectorBlock == [k \in 0 .. BlockLen - 1 |-> TestVector[k + 1]]

\* C3. Known vector: with the all-zero key, the all-zero nonce and counter 0 the
\* first keystream block is the published vector, and so is the output for 64
\* zero bytes.
C3_KnownVector ==
    (call = "main" /\ key = ZeroKey /\ nonce = ZeroNonce /\ counter = Zero32) =>
        /\ (nblocks = 1 /\ BlockReady) => block = TestVectorBlock
        /\ (Returned /\ inp = ZeroBytes(BlockLen)) => out = TestVectorBlock

C3_Witness ==
    /\ call = "main"
    /\ key = ZeroKey
    /\ nonce = ZeroNonce
    /\ counter = Zero32
    /\ Returned
    /\ inp = ZeroBytes(BlockLen)
    /\ out = TestVectorBlock

CipherCalls == {"main", "roundtrip", "inplace", "prefix", "suffix"}

\* C4, the state part: word 12 is the initial counter plus the number of blocks
\* generated, the block of chunk i / 64 is generated before the increment and
\* the chunk is XORed after it; on return ceil(L / 64) blocks were generated.
CounterInv ==
    (call \in CipherCalls /\ pc # "init") =>
        /\ nblocks <= Chunks(inlen)
        /\ (pc = "loop" \/ InBlock) =>
              /\ nblocks = i \div BlockLen
              /\ s[12] = Add32(counter, W(0, nblocks))
        /\ (pc = "blk_ret") =>
              /\ nblocks = (i \div BlockLen) + 1
              /\ s[12] = Add32(counter, W(0, nblocks - 1))
        /\ (pc = "xor") =>
              /\ nblocks = (i \div BlockLen) + 1
              /\ s[12] = Add32(counter, W(0, nblocks))
        /\ Returned =>
              /\ nblocks = Chunks(inlen)
              /\ s[12] = Add32(counter, W(0, Chunks(inlen)))

\* C4, the step part: word 12 changes only by the increment by 1 that follows a
\* block's generation and precedes the XOR of its chunk.
CounterStep ==
    (pc # "init" /\ pc' # "init" /\ s'[12] # s[12]) =>
        /\ pc = "blk_ret"
        /\ pc' = "xor"
        /\ s'[12] = Add32(s[12], One32)

\* C4. Counter advancement: ChaCha20XOR generates exactly ceil(L / 64) blocks and
\* returns, word 12 having advanced (as a 32-bit word) by ceil(L / 64); each
\* iteration increments it by 1 after the block and before the XOR.
C4_CounterAdvance ==
    /\ []CounterInv
    /\ [][CounterStep]_vars
    /\ ((pc = "init") ~> Returned)

C4_Witness ==
    /\ call = "main"
    /\ Returned
    /\ inlen = BlockLen * MaxBlocks + 1
    /\ nblocks = MaxBlocks + 1
    /\ counter = One32
    /\ s[12] = W(0, MaxBlocks + 2)

\* C5. Block independence: the state chacha20_block gets for chunk i is the
\* initial state for (key, initial counter + i, nonce), and the output for
\* A || B, |A| a multiple of 64, is the output for A followed by the output
\* for B under the counter |A| / 64 further.
C5_BlockIndependence ==
    /\ (call \in CipherCalls /\ pc = "blk_copy") =>
          s = chacha20_init_state(key, Add32(counter, W(0, i \div BlockLen)), nonce)
    /\ (call = "suffix" /\ Returned) =>
          /\ Len0(resA) = splitK
          /\ Cat(resA, out) = res1

C5_Witness ==
    /\ call = "suffix"
    /\ Returned
    /\ splitK = BlockLen
    /\ inlen = 1
    /\ Cat(resA, out) = res1
    /\ res1 # plain

\* the little-endian word at bytes off .. off + 3
LEWord(p, off) == W(p[off + 3] * 256 + p[off + 2], p[off + 1] * 256 + p[off])

\* C6, the state part: words 0-3 are 0x61707865, 0x3320646e, 0x79622d32,
\* 0x6b206574, words 4-11 the key and words 13-15 the nonce, little-endian.
FrameInv ==
    (call \in CipherCalls /\ pc # "init") =>
        /\ s[0] = W(24944, 30821)
        /\ s[1] = W(13088, 25710)
        /\ s[2] = W(31074, 11570)
        /\ s[3] = W(27424, 25972)
        /\ \A k \in 0 .. 7 : s[4 + k] = LEWord(key, 4 * k)
        /\ \A k \in 0 .. 2 : s[13 + k] = LEWord(nonce, 4 * k)

\* C6, the step part: after chacha20_init_state a step leaves the state alone or
\* is the increment of word 12; no step of chacha20_block changes it.
FrameStep ==
    (pc # "init" /\ pc' # "init") =>
        \/ s' = s
        \/ /\ pc = "blk_ret"
           /\ s' = [s EXCEPT ![12] = Add32(s[12], One32)]

\* C6. State frame: the only write to the state after its initialisation is the
\* per-block increment of word 12; chacha20_block leaves its input unchanged.
C6_StateFrame ==
    /\ []FrameInv
    /\ [][FrameStep]_vars

C6_Witness ==
    /\ call = "main"
    /\ Returned
    /\ key = SeqKey
    /\ nonce = MixNonce
    /\ nblocks = 2
    /\ s[12] # counter
    /\ s[4] = W(770, 256)
    /\ s[13] = W(2304, 0)

\* the order of the quarter rounds in a double round, as the claim gives it
ClaimedOrder ==
    << <<0, 4, 8, 12>>, <<1, 5, 9, 13>>, <<2, 6, 10, 14>>, <<3, 7, 11, 15>>,
       <<0, 5, 10, 15>>, <<1, 6, 11, 12>>, <<2, 7, 8, 13>>, <<3, 4, 9, 14>> >>

\* the round loop of chacha20_block is over
RoundsOver == \/ pc \in {"blk_ser", "blk_ret"}
              \/ (pc = "blk_round" /\ ~(rounds > 0))

\* C7 as amended. Round structure: every double round applies the quarter round
\* to the four columns and then to the four diagonals, in the order given; with
\* an even round count n the loop makes n / 2 double rounds, that is 4n quarter
\* rounds (10 and 80 for n = 20), before the feedforward.
C7_RoundStructure ==
    (call = "block" /\ pc # "blk_copy") =>
        /\ Len(drLog) <= 8
        /\ drLog = SubSeq(ClaimedOrder, 1, Len(drLog))
        /\ Len(drLog) = (IF q = 0 /\ drCount > 0 THEN 8 ELSE q)
        /\ qrCount = 8 * drCount + q
        /\ (RoundsOver /\ num_rounds % 2 = 0) =>
              /\ drCount = num_rounds \div 2
              /\ qrCount = 4 * num_rounds
        /\ (RoundsOver /\ num_rounds = Rounds20) =>
              /\ drCount = 10
              /\ qrCount = 80

C7_Witness ==
    /\ call = "block"
    /\ pc = "blk_ret"
    /\ num_rounds = Rounds20
    /\ drCount = 10
    /\ qrCount = 80
    /\ drLog = ClaimedOrder

\* C7 as stated: with round count 20, 10 double rounds are 20 quarter rounds.
C7_Original ==
    (call = "block" /\ RoundsOver /\ num_rounds = Rounds20) =>
        /\ drCount = 10
        /\ qrCount = 20

\* C8. Counter wrap: from 0xffffffff the increment goes to 0 and the loop goes
\* on: chunk i >= 1 is keyed by counter i - 1, and the output has length L.
C8_CounterWrap ==
    (call \in CipherCalls /\ counter = MaxCounter /\ pc # "init") =>
        /\ (InBlock /\ i = 0) => s[12] = W(Half - 1, Half - 1)
        /\ (InBlock /\ i >= BlockLen) => s[12] = W(0, (i \div BlockLen) - 1)
        /\ (pc = "xor") => s[12] = W(0, i \div BlockLen)
        /\ (key = ZeroKey /\ nonce = ZeroNonce /\ nblocks = 2 /\ BlockReady) =>
              block = TestVectorBlock
        /\ Returned =>
              /\ nblocks = Chunks(inlen)
              /\ DOMAIN out = 0 .. inlen - 1
              /\ \A k \in 0 .. inlen - 1 : out[k] \in 0 .. 255

C8_Witness ==
    /\ call = "main"
    /\ counter = MaxCounter
    /\ key = ZeroKey
    /\ nonce = ZeroNonce
    /\ Returned
    /\ inlen = BlockLen + 1
    /\ s[12] = One32
    /\ block = TestVectorBlock

\* C9. Rotation: for n in 0 .. 31, bit k of x is bit (k + n) mod 32 of
\* rotl32(x, n); rotl32(x, 0) = x; the right shift is by (-n) mod 32, in 0 .. 31.
C9_Rotation ==
    (rot.pc = "ret") =>
        /\ IsWord32(rot.r)
        /\ \A k \in 0 .. 31 : Bit(rot.r, (k + rot.n) % 32) = Bit(rot.x, k)
        /\ (rot.n = 0) => rot.r = rot.x
        /\ NegAnd31(rot.n) = (0 - rot.n) % 32
        /\ NegAnd31(rot.n) \in 0 .. 31

C9_Witness ==
    /\ rot.pc = "ret"
    /\ rot.x = W(24944, 30821)
    /\ rot.n = 7
    /\ rot.r = W(47164, 12976)

\* C10. In place: with out the same buffer as in, the output is the output of
\* the call with a separate out, each index read once and written once.
C10_InPlace ==
    (call = "inplace" /\ Returned) =>
        /\ out = res1
        /\ \A k \in 0 .. inlen - 1 : rcount[k] = 1 /\ wcount[k] = 1

C10_Witness ==
    /\ call = "inplace"
    /\ Returned
    /\ inlen = BlockLen + 1
    /\ out = res1
    /\ out # plain

=============================================================================
